---- MODULE Spec2Model ----
(***************************************************************************)
(* Spotify + Last.fm auto-skipper (spotify_skip_recently_played_song.py).  *)
(*                                                                         *)
(* Two threads share the module globals: the main thread runs main_loop,   *)
(* the tray thread runs the pystray menu callbacks (toggle_skip and        *)
(* pause_current_song).  Each thread is cut at its blocking calls (HTTP    *)
(* requests, time.sleep) and at its accesses to globals the other thread   *)
(* writes.  The wall clock `now` is in seconds; it advances only in        *)
(* time.sleep, the straight-line code between two blocking calls taking    *)
(* no time.                                                                *)
(***************************************************************************)
EXTENDS Integers, Sequences, FiniteSets, TLC

(***************************************************************************)
(* Configuration (config.ini fallbacks) and literals of the source.        *)
(***************************************************************************)
SKIP_WINDOW_DAYS == 60
POLL_INTERVAL_SECONDS == 120
RESTART_PATTERN_DAY_DIFF == 2
\* restart_pattern_song_count is configurable (fallback 5); the model runs
\* with a smaller sample size.
RESTART_PATTERN_SONG_COUNT == 2
SHORT_DELAY_SECONDS == 5
SETTLE_DELAY_SECONDS == 1
DEFAULT_EXPIRES_IN == 3600
EARLY_REFRESH_SECONDS == 100
SecondsPerDay == 86400

\* timedelta(days=SKIP_WINDOW_DAYS)
Window == SKIP_WINDOW_DAYS * SecondsPerDay

(***************************************************************************)
(* Bounds of the model.                                                    *)
(***************************************************************************)
\* datetime.now() when the module is loaded.
StartTime == 20000000
\* The clock is read up to StartTime + Horizon; later readings are capped.
Horizon == 2

MaxNow == StartTime + Horizon

\* Skip commands issued while skipping_paused stays set are counted up to
\* this number.
MaxPausedSkips == 2

TrackIds == {"A", "B"}
\* Python None where a track id (or a track) is expected.
NoTrack == "None"
\* SPOTIFY_TOKEN = None.  A token is modelled by the instant at which the
\* server stops honouring it: <<issued + expires_in>>.
NoToken == << >>

\* expires_in as the token endpoint reports it to main_loop and to the tray
\* (<< >>: the field is missing), and the shorter lifetimes with which the
\* token manager is also exercised on its own.
ExpiresInFields == { << >>, <<3600>> }
ShortExpiresInFields == { <<1>>, <<101>> }

\* Ages (seconds before the lookup) of the last scrobble in a history reply.
AgeValues == { 3 * SecondsPerDay, 5 * SecondsPerDay,
               Window - 1, Window, Window + 1 }

Threads == {"loop", "tray"}

VARIABLES
    now,                    \* wall clock, seconds
    SPOTIFY_TOKEN,          \* line 80
    TOKEN_EXPIRES_AT,       \* line 81
    skipping_paused,        \* line 170, written by the tray thread
    temp_pause_track_id,    \* line 171, written by both threads
    last_checked_track_id,  \* line 260
    ENABLE_RESTART_PATTERN, \* line 73, fixed at start-up
    recent_skip_days,       \* line 562, local to main_loop
    pc,                     \* position of main_loop
    track,                  \* main_loop local: id of the observed track
    days_since,             \* main_loop local (line 621)
    was_paused,             \* main_loop local (line 629)
    naps,                   \* time.sleep calls that end the current cycle
    tpc,                    \* position of the tray thread
    refresh,                \* per thread: progress of refresh_access_token
    cyc,                    \* history: what the current cycle did so far
    prevObs,                \* history: result of the previous observation
    owed,                   \* history: a skip decided for prevObs is undone
    pausedSkips,            \* history: skips since skipping_paused was set
    tokLog                  \* history: the last get_spotify_token call

vars == <<now, SPOTIFY_TOKEN, TOKEN_EXPIRES_AT, skipping_paused,
          temp_pause_track_id, last_checked_track_id, ENABLE_RESTART_PATTERN,
          recent_skip_days, pc, track, days_since, was_paused, naps,
          tpc, refresh, cyc, prevObs, owed, pausedSkips,
          tokLog>>

Max(a, b) == IF a >= b THEN a ELSE b

RECURSIVE SeqMax(_)
SeqMax(s) == IF Len(s) = 1 THEN s[1] ELSE Max(s[1], SeqMax(Tail(s)))

RECURSIVE SeqMin(_)
SeqMin(s) ==
    IF Len(s) = 1 THEN s[1]
    ELSE LET m == SeqMin(Tail(s)) IN IF s[1] <= m THEN s[1] ELSE m

RECURSIVE SeqSum(_)
SeqSum(s) == IF s = << >> THEN 0 ELSE s[1] + SeqSum(Tail(s))

Has(s, e) == \E i \in 1..Len(s) : s[i] = e

\* Index of the first occurrence of e in s, 0 when absent.
RECURSIVE IndexFrom(_, _, _)
IndexFrom(s, e, i) ==
    IF i > Len(s) THEN 0
    ELSE IF s[i] = e THEN i ELSE IndexFrom(s, e, i + 1)

IndexOf(s, e) == IndexFrom(s, e, 1)

\* The clock after d more seconds (capped at the model's horizon).
After(d) == IF now + d > MaxNow THEN MaxNow ELSE now + d

(***************************************************************************)
(* Token manager: refresh_access_token (267-312), get_spotify_token        *)
(* (315-324).                                                              *)
(***************************************************************************)

\* What the token endpoint may answer to the refresh grant.
RefreshFailures ==
    { [kind |-> k, expires_in |-> << >>] :
        k \in {"neterr", "http_error", "no_token"} }

RefreshResponses ==
    RefreshFailures
    \cup { [kind |-> "ok", expires_in |-> f] : f \in ExpiresInFields }

AllRefreshResponses ==
    RefreshResponses
    \cup { [kind |-> "ok", expires_in |-> f] : f \in ShortExpiresInFields }

\* Line 322 with > in place of >=.
NeedsRefreshStrict ==
    SPOTIFY_TOKEN = NoToken \/ now > TOKEN_EXPIRES_AT

\* Line 322: SPOTIFY_TOKEN is None or datetime.now(timezone.utc) >= TOKEN_EXPIRES_AT
NeedsRefresh ==
    SPOTIFY_TOKEN = NoToken \/ now >= TOKEN_EXPIRES_AT

\* Line 308: int(data.get("expires_in", 3600))
ExpiresIn(field) == IF field = << >> THEN DEFAULT_EXPIRES_IN ELSE field[1]

\* Line 310: now + timedelta(seconds=max(0, expires_in - 100))
ExpiresAt(t, L) == t + Max(0, L - EARLY_REFRESH_SECONDS)

\* refresh[th].st: "idle" (no call in progress), "post" (line 284 sent, the
\* answer awaited), "store" (line 305 done, lines 308-310 pending), "ready"
\* (refresh_access_token returned, get_spotify_token about to return).
\* L is the local expires_in of line 308, t the datetime.now() of line 310;
\* valid records whether line 322 saw a token and a clock before its expiry,
\* posts counts the grants posted on line 284.
IdleRefresh ==
    [st |-> "idle", L |-> 0, t |-> 0, valid |-> FALSE, posts |-> 0]

\* tokLog describes the get_spotify_token call that ended in the step just
\* taken: valid as above, the refresh exchanges it made, whether it returned
\* a token, and whether the server had stopped honouring that token.
NoCall ==
    [made |-> FALSE, valid |-> FALSE, exchanges |-> 0, returned |-> FALSE,
     stale |-> FALSE]

\* get_spotify_token is about to return a token to thread th: either the
\* cache is valid at line 322, or the refresh it started has returned.
TokenReady(th) ==
    \/ refresh[th].st = "ready"
    \/ refresh[th].st = "idle" /\ ~NeedsRefresh

\* Line 324: the call of thread th returns SPOTIFY_TOKEN.
ReturnToken(th) ==
    /\ TokenReady(th)
    /\ refresh' = [refresh EXCEPT ![th] = IdleRefresh]
    /\ tokLog' =
         IF refresh[th].st = "ready"
         THEN [made |-> TRUE, valid |-> refresh[th].valid,
               exchanges |-> refresh[th].posts, returned |-> TRUE,
               stale |-> now >= SPOTIFY_TOKEN[1]]
         ELSE [made |-> TRUE,
               valid |-> SPOTIFY_TOKEN # NoToken /\ now < TOKEN_EXPIRES_AT,
               exchanges |-> 0, returned |-> TRUE,
               stale |-> now >= SPOTIFY_TOKEN[1]]

\* Lines 298-305 assigning data.get("access_token") before testing for it.
RefreshRaisedStoringNone(th) ==
    /\ SPOTIFY_TOKEN' = NoToken
    /\ refresh' = [refresh EXCEPT ![th] = IdleRefresh]
    /\ tokLog' = [made |-> TRUE, valid |-> refresh[th].valid,
                  exchanges |-> refresh[th].posts, returned |-> FALSE,
                  stale |-> FALSE]

\* refresh_access_token raised (lines 284, 299, 303) in thread th: the
\* assignment of line 305 is not reached.
RefreshRaised(th) ==
    /\ SPOTIFY_TOKEN' = SPOTIFY_TOKEN
    /\ refresh' = [refresh EXCEPT ![th] = IdleRefresh]
    /\ tokLog' = [made |-> TRUE, valid |-> refresh[th].valid,
                  exchanges |-> refresh[th].posts, returned |-> FALSE,
                  stale |-> FALSE]

(***************************************************************************)
(* Remote control gate: is_skipping_enabled (469-480).  A body is the      *)
(* sequence of its lines.                                                  *)
(***************************************************************************)
Lines == {"", "  ", "on", "ON", " On ", "off", "on now"}

RemoteBodies ==
    { << >>, <<"  ">>, <<"on">>, <<"ON">>, <<"", " On ", "off">>,
      <<"off">>, <<"on now">>, <<"off", "on">> }

RemoteResponses ==
    { [kind |-> "fail", body |-> << >>] }
    \cup { [kind |-> "ok", body |-> b] : b \in RemoteBodies }

\* str.strip() of one line.
Strip(l) ==
    CASE l = "  " -> ""
      [] l = " On " -> "On"
      [] OTHER -> l

\* str.lower()
Lower(l) ==
    CASE l = "ON" -> "on"
      [] l = "On" -> "on"
      [] OTHER -> l

\* r.text.strip().splitlines(): surrounding blank lines are stripped away.
RECURSIVE DropBlankHead(_)
DropBlankHead(b) ==
    IF b = << >> THEN << >>
    ELSE IF Strip(b[1]) = "" THEN DropBlankHead(Tail(b)) ELSE b

\* Lines 474-480 comparing the first line without lower().
IsSkippingEnabledCaseSensitive(r) ==
    IF r.kind = "fail" THEN TRUE
    ELSE LET ls == DropBlankHead(r.body) IN
         IF ls = << >> THEN TRUE
         ELSE Strip(ls[1]) = "on"

\* Lines 474-480.  Indexing [0] of an empty list raises IndexError, which the
\* except clause turns into True, as it does a failed request.
IsSkippingEnabled(r) ==
    IF r.kind = "fail" THEN TRUE
    ELSE LET ls == DropBlankHead(r.body) IN
         IF ls = << >> THEN TRUE
         ELSE Lower(Strip(ls[1])) = "on"

(***************************************************************************)
(* Playback client: get_current_track (373-408), is_spotify_paused         *)
(* (422-427), and the commands (411-436, 455-464).                         *)
(***************************************************************************)
TrackResponses ==
    { [kind |-> k, id |-> NoTrack] :
        k \in {"neterr", "badjson", "nothing", "status", "noitem"} }
    \cup { [kind |-> "track", id |-> t] : t \in TrackIds }

\* Lines 385-408.  raised: requests or r.json() raised.
GetCurrentTrack(r) ==
    [raised |-> r.kind \in {"neterr", "badjson"},
     id |-> IF r.kind = "track" THEN r.id ELSE NoTrack]

PlayerResponses ==
    {"neterr", "badjson", "status", "paused", "playing", "nokey"}

\* Lines 424-427 without the negation.
IsSpotifyPausedInverted(r) == r \in {"playing", "nokey"}

\* Lines 424-427: False on a status other than 200, else
\* not data.get("is_playing", True).
IsSpotifyPaused(r) == r = "paused"

\* Answers to a playback command (skip, pause, play, shuffle).
CommandResponses == {"neterr", "ok", "rejected"}

\* Lines 418-420 and 435-436 calling r.raise_for_status().
CommandRaisesOnStatus(r) == r # "ok"

\* Lines 418-420, 431-436, 455-464: a command raises only when the request
\* itself fails; a status that is no success is at most printed.
CommandRaises(r) == r = "neterr"

ContextResponses ==
    {"neterr", "badjson", "status", "nullctx", "nouri", "uri"}

(***************************************************************************)
(* History client: get_last_play_date (486-546).                           *)
(***************************************************************************)

\* A reply of user.gettrackscrobbles.  kind: the request failed ("neterr"),
\* a status other than 200 ("status"), a body that is no JSON ("badjson") or
\* a parsed body ("ok").  shape: what trackscrobbles.track holds.  utsKind:
\* date.uts is missing or empty, is no decimal number ("garbage"), or is
\* the number uts.
NoReply ==
    [kind |-> "none", shape |-> "empty", utsKind |-> "missing", uts |-> 0]

HistoryResponses(t) ==
    { [kind |-> k, shape |-> "empty", utsKind |-> "missing", uts |-> 0] :
        k \in {"neterr", "status", "badjson", "ok"} }
    \cup { [kind |-> "ok", shape |-> s, utsKind |-> k, uts |-> 0] :
             s \in {"list", "dict"}, k \in {"missing", "garbage"} }
    \cup { [kind |-> "ok", shape |-> s, utsKind |-> "int", uts |-> t - a] :
             s \in {"list", "dict"}, a \in AgeValues }

\* The value returned by get_last_play_date: None, or a datetime with its
\* POSIX timestamp ts and whether it carries tzinfo.
NoDate == [raised |-> FALSE, some |-> FALSE, ts |-> 0, aware |-> FALSE]

\* Lines 495-546.  Line 532 builds an aware datetime (fromtimestamp with
\* tz=timezone.utc), line 542 a naive one (utcfromtimestamp).
GetLastPlayDate(r) ==
    CASE r.kind \in {"neterr", "status"} -> NoDate
      [] r.kind = "badjson" -> [NoDate EXCEPT !.raised = TRUE]
      [] r.shape = "empty" -> NoDate
      [] r.utsKind # "int" -> NoDate
      [] OTHER -> [raised |-> FALSE, some |-> TRUE, ts |-> r.uts,
                   aware |-> (r.shape = "list")]

\* timedelta.days of (t - ts): floor division by one day.
DaysBetween(t, ts) == (t - ts) \div SecondsPerDay

\* Lines 626-627: last_played > now - timedelta(days=SKIP_WINDOW_DAYS)
IsRecent(t, ts) == ts > t - Window

\* Lines 619-627 deciding on anything but a failed lookup.
DecisionIgnoringAbsent(lp, t) ==
    IF lp.raised THEN "raise"
    ELSE IF lp.some /\ ~lp.aware THEN "raise"
    ELSE IF ~lp.some \/ IsRecent(t, lp.ts) THEN "skip" ELSE "keep"

\* Lines 618-657: what main_loop does with the value of get_last_play_date
\* at time t.  Subtracting a naive datetime from the aware
\* datetime.now(timezone.utc) on line 621 raises TypeError.
Decision(lp, t) ==
    IF lp.raised THEN "raise"
    ELSE IF ~lp.some THEN "keep"
    ELSE IF ~lp.aware THEN "raise"
    ELSE IF IsRecent(t, lp.ts) THEN "skip" ELSE "keep"

(***************************************************************************)
(* Pattern detector (lines 636-648).                                       *)
(***************************************************************************)

\* Lines 637-639 with pop() in place of pop(0): the newest entry is evicted.
PushEvictNewest(ledger, d) ==
    LET l == Append(ledger, d) IN
    IF Len(l) > RESTART_PATTERN_SONG_COUNT THEN SubSeq(l, 1, Len(l) - 1)
    ELSE l

\* Lines 637-639: append, then pop(0) when longer than the sample size.
Push(ledger, d) ==
    LET l == Append(ledger, d) IN
    IF Len(l) > RESTART_PATTERN_SONG_COUNT THEN Tail(l) ELSE l

\* Lines 643-644 with < in place of <=.
IsRepeatingStrict(ledger) ==
    /\ Len(ledger) = RESTART_PATTERN_SONG_COUNT
    /\ SeqMax(ledger) - SeqMin(ledger) < RESTART_PATTERN_DAY_DIFF

\* Lines 643-644.
IsRepeating(ledger) ==
    /\ Len(ledger) = RESTART_PATTERN_SONG_COUNT
    /\ SeqMax(ledger) - SeqMin(ledger) <= RESTART_PATTERN_DAY_DIFF

(***************************************************************************)
(* State after start-up.                                                   *)
(***************************************************************************)
\* No answer of the remote control file at hand.
NoBody == [kind |-> "none", body |-> << >>]

NewCycle ==
    [flag |-> FALSE, remote |-> "unasked", body |-> NoBody,
     obs |-> "unobserved",
     marked |-> FALSE, reply |-> NoReply, age |-> 0,
     player |-> "unread", pushed |-> << >>, didPush |-> FALSE,
     exc |-> FALSE, events |-> << >>, rejected |-> << >>,
     ctx |-> "unread"]

Init ==
    /\ now = StartTime
    /\ SPOTIFY_TOKEN = NoToken
    /\ TOKEN_EXPIRES_AT = StartTime
    /\ skipping_paused = FALSE
    /\ temp_pause_track_id = NoTrack
    /\ last_checked_track_id = NoTrack
    /\ ENABLE_RESTART_PATTERN \in BOOLEAN
    /\ recent_skip_days = << >>
    /\ pc = "gate"
    /\ track = NoTrack
    /\ days_since = 0
    /\ was_paused = FALSE
    /\ naps = << >>
    /\ tpc = "idle"
    /\ refresh = [th \in Threads |-> IdleRefresh]
    /\ cyc = NewCycle
    /\ prevObs = NoTrack
    /\ owed = FALSE
    /\ pausedSkips = 0
    /\ tokLog = NoCall

(***************************************************************************)
(* main_loop (552-670).                                                    *)
(***************************************************************************)
Log(c, e) == [c EXCEPT !.events = Append(@, e)]

\* The playback command e was sent and answered r: a status that is no
\* success is noted.
Answered(c, e, r) ==
    [Log(c, e) EXCEPT !.rejected = IF r = "rejected" THEN Append(@, e) ELSE @]

\* The cycle ends with the time.sleep calls n.
Finish(n, c) ==
    /\ pc' = "sleep"
    /\ naps' = n
    /\ cyc' = c

Goto(p, c) ==
    /\ pc' = p
    /\ naps' = naps
    /\ cyc' = c

\* Lines 664-670: the handler sleeps (667), then control falls out of the
\* try statement onto the sleep of line 670.
HandlerNaps == <<POLL_INTERVAL_SECONDS, POLL_INTERVAL_SECONDS>>

\* An exception leaving main_loop: no except clause around the cycle.
RaiseUncaught(c) ==
    /\ pc' = "dead"
    /\ naps' = naps
    /\ cyc' = [c EXCEPT !.exc = TRUE]

\* An exception reaches the except clause of line 664.
Raise(c) == Finish(HandlerNaps, [c EXCEPT !.exc = TRUE])

\* Line 570 never taking the branch.
PausedManuallyNever == FALSE

\* Line 570: if skipping_paused
PausedManually == skipping_paused

\* Lines 569-573.
Gate ==
    /\ pc = "gate"
    /\ IF PausedManually
       THEN Finish(<<POLL_INTERVAL_SECONDS>>,
                   [cyc EXCEPT !.flag = skipping_paused])
       ELSE Goto("remote", [cyc EXCEPT !.flag = skipping_paused])
    /\ UNCHANGED <<now, SPOTIFY_TOKEN, TOKEN_EXPIRES_AT, skipping_paused,
                   temp_pause_track_id, last_checked_track_id,
                   ENABLE_RESTART_PATTERN, recent_skip_days, track,
                   days_since, was_paused, tpc, refresh, prevObs, owed,
                   pausedSkips>>
    /\ tokLog' = NoCall

\* Lines 575-579.
Remote ==
    /\ pc = "remote"
    /\ \E r \in RemoteResponses :
         LET en == IsSkippingEnabled(r)
             c == [Log(cyc, "remote") EXCEPT
                     !.remote = IF en THEN "enabled" ELSE "disabled"]
         IN IF en THEN Goto("observe", c)
            ELSE Finish(<<POLL_INTERVAL_SECONDS>>, c)
    /\ UNCHANGED <<now, SPOTIFY_TOKEN, TOKEN_EXPIRES_AT, skipping_paused,
                   temp_pause_track_id, last_checked_track_id,
                   ENABLE_RESTART_PATTERN, recent_skip_days, track,
                   days_since, was_paused, tpc, refresh, prevObs, owed,
                   pausedSkips>>
    /\ tokLog' = NoCall

\* Line 595 never finding the same song.
SameSongNever(id) == FALSE

\* Line 595: track['id'] == last_checked_track_id
SameSong(id) == id = last_checked_track_id

\* Lines 584-587 also assigning last_checked_track_id = None.
LastCheckedForgotten(id) == NoTrack

\* Lines 584-598: the branches that end the cycle on nothing playing or on
\* the same song do not assign last_checked_track_id.
LastCheckedKept(id) == id

\* Lines 581-602.
Observe ==
    /\ pc = "observe"
    /\ ReturnToken("loop")
    /\ \E r \in TrackResponses :
         LET g == GetCurrentTrack(r)
             c == [Log(cyc, "observe") EXCEPT !.obs = g.id]
         IN /\ prevObs' = g.id
            /\ owed' = (owed /\ g.id # NoTrack /\ g.id = prevObs)
            /\ pausedSkips' = pausedSkips
            /\ IF g.raised
               THEN /\ Raise(c)
                    /\ UNCHANGED <<last_checked_track_id, track>>
               ELSE IF g.id = NoTrack \/ SameSong(g.id)
               THEN /\ Finish(<<POLL_INTERVAL_SECONDS>>, c)
                    /\ last_checked_track_id' =
                         LastCheckedKept(last_checked_track_id)
                    /\ UNCHANGED track
               ELSE /\ last_checked_track_id' = g.id
                    /\ track' = g.id
                    /\ Goto("checkMark", c)
    /\ UNCHANGED <<now, SPOTIFY_TOKEN, TOKEN_EXPIRES_AT, skipping_paused,
                   temp_pause_track_id, ENABLE_RESTART_PATTERN,
                   recent_skip_days, days_since, was_paused, tpc>>

\* Line 605: the test of the stale mark.
CheckMark ==
    /\ pc = "checkMark"
    /\ IF temp_pause_track_id # NoTrack /\ temp_pause_track_id # track
       THEN Goto("clearMark", cyc)
       ELSE Goto("checkTempPause", cyc)
    /\ UNCHANGED <<now, SPOTIFY_TOKEN, TOKEN_EXPIRES_AT, skipping_paused,
                   temp_pause_track_id, last_checked_track_id,
                   ENABLE_RESTART_PATTERN, recent_skip_days, track,
                   days_since, was_paused, tpc, refresh, prevObs, owed,
                   pausedSkips>>
    /\ tokLog' = NoCall

\* Line 607: temp_pause_track_id = None
ClearMark ==
    /\ pc = "clearMark"
    /\ temp_pause_track_id' = NoTrack
    /\ Goto("checkTempPause", cyc)
    /\ UNCHANGED <<now, SPOTIFY_TOKEN, TOKEN_EXPIRES_AT, skipping_paused,
                   last_checked_track_id, ENABLE_RESTART_PATTERN,
                   recent_skip_days, track, days_since, was_paused, tpc,
                   refresh, prevObs, owed, pausedSkips>>
    /\ tokLog' = NoCall

\* Lines 611-615.
CheckTempPause ==
    /\ pc = "checkTempPause"
    /\ IF temp_pause_track_id = track
       THEN Finish(<<POLL_INTERVAL_SECONDS>>, [cyc EXCEPT !.marked = TRUE])
       ELSE Goto("lookup", cyc)
    /\ UNCHANGED <<now, SPOTIFY_TOKEN, TOKEN_EXPIRES_AT, skipping_paused,
                   temp_pause_track_id, last_checked_track_id,
                   ENABLE_RESTART_PATTERN, recent_skip_days, track,
                   days_since, was_paused, tpc, refresh, prevObs, owed,
                   pausedSkips>>
    /\ tokLog' = NoCall

\* Lines 617-627 and 654-657: the history lookup and the decision.
Lookup ==
    /\ pc = "lookup"
    /\ \E r \in HistoryResponses(now) :
         LET lp == GetLastPlayDate(r)
             d == Decision(lp, now)
             c == [Log(cyc, "lookup") EXCEPT
                     !.reply = [r EXCEPT !.uts = 0],
                     !.age = IF r.utsKind = "int" THEN now - r.uts ELSE 0]
         IN /\ owed' = (d = "skip")
            /\ pausedSkips' = pausedSkips
            /\ CASE d = "raise" -> Raise(c) /\ UNCHANGED days_since
                 [] d = "keep" ->
                      /\ Finish(<<POLL_INTERVAL_SECONDS>>, c)
                      /\ days_since' =
                           IF lp.some THEN DaysBetween(now, lp.ts)
                           ELSE days_since
                 [] OTHER ->
                      /\ Goto("readPause", c)
                      /\ days_since' =
                           IF lp.some THEN DaysBetween(now, lp.ts)
                           ELSE days_since
    /\ UNCHANGED <<now, SPOTIFY_TOKEN, TOKEN_EXPIRES_AT, skipping_paused,
                   temp_pause_track_id, last_checked_track_id,
                   ENABLE_RESTART_PATTERN, recent_skip_days, track,
                   was_paused, tpc, refresh, prevObs>>
    /\ tokLog' = NoCall

\* Line 629: was_paused = is_spotify_paused()
ReadPause ==
    /\ pc = "readPause"
    /\ ReturnToken("loop")
    /\ \E r \in PlayerResponses :
         LET c == [Log(cyc, "player") EXCEPT !.player = r]
         IN IF r \in {"neterr", "badjson"}
            THEN Raise(c) /\ UNCHANGED was_paused
            ELSE Goto("skip", c) /\ was_paused' = IsSpotifyPaused(r)
    /\ UNCHANGED <<now, SPOTIFY_TOKEN, TOKEN_EXPIRES_AT, skipping_paused,
                   temp_pause_track_id, last_checked_track_id,
                   ENABLE_RESTART_PATTERN, recent_skip_days, track,
                   days_since, tpc, prevObs, owed, pausedSkips>>

\* Lines 630-631: skip_current_track(); a status other than 200, 202, 204
\* is printed and nothing else.
Skip ==
    /\ pc = "skip"
    /\ ReturnToken("loop")
    /\ \E r \in CommandResponses :
         /\ owed' = (owed /\ r # "ok")
         /\ pausedSkips' = IF ~skipping_paused THEN 0
                           ELSE IF pausedSkips < MaxPausedSkips
                                THEN pausedSkips + 1
                                ELSE pausedSkips
         /\ IF CommandRaises(r) THEN Raise(Answered(cyc, "skip", r))
            ELSE Goto(IF was_paused THEN "settle" ELSE "ledger",
                      Answered(cyc, "skip", r))
    /\ UNCHANGED <<now, SPOTIFY_TOKEN, TOKEN_EXPIRES_AT, skipping_paused,
                   temp_pause_track_id, last_checked_track_id,
                   ENABLE_RESTART_PATTERN, recent_skip_days, track,
                   days_since, was_paused, tpc, prevObs>>

\* Line 633: pause_spotify_playback()
Pause ==
    /\ pc = "pause"
    /\ ReturnToken("loop")
    /\ \E r \in CommandResponses :
         IF CommandRaises(r) THEN Raise(Answered(cyc, "pause", r))
         ELSE Goto("ledger", Answered(cyc, "pause", r))
    /\ UNCHANGED <<now, SPOTIFY_TOKEN, TOKEN_EXPIRES_AT, skipping_paused,
                   temp_pause_track_id, last_checked_track_id,
                   ENABLE_RESTART_PATTERN, recent_skip_days, track,
                   days_since, was_paused, tpc, prevObs, owed, pausedSkips>>

\* Lines 632, 457, 461: time.sleep(1) between two commands.
Settle ==
    /\ pc \in {"settle", "settleDummy", "settleShuffle"}
    /\ now' = After(SETTLE_DELAY_SECONDS)
    /\ Goto(CASE pc = "settle" -> "pause"
              [] pc = "settleDummy" -> "shuffle"
              [] OTHER -> "playContext", cyc)
    /\ UNCHANGED <<SPOTIFY_TOKEN, TOKEN_EXPIRES_AT, skipping_paused,
                   temp_pause_track_id, last_checked_track_id,
                   ENABLE_RESTART_PATTERN, recent_skip_days, track,
                   days_since, was_paused, tpc, refresh, prevObs, owed,
                   pausedSkips>>
    /\ tokLog' = NoCall

\* Lines 650-653 without the continue: control falls onto line 670.
SkipCycleNapsFallThrough == <<SHORT_DELAY_SECONDS, POLL_INTERVAL_SECONDS>>

\* Lines 650-653: time.sleep(5), then continue.
SkipCycleNaps == <<SHORT_DELAY_SECONDS>>

\* Line 636 taking the branch whatever the configuration.
PatternEnabledAlways == TRUE

\* Line 636: if ENABLE_RESTART_PATTERN
PatternEnabled == ENABLE_RESTART_PATTERN

\* Lines 635-650 up to the call of restart_playlist.
Ledger ==
    /\ pc = "ledger"
    /\ IF PatternEnabled
       THEN LET l == Push(recent_skip_days, days_since)
                c == [cyc EXCEPT !.pushed = l, !.didPush = TRUE]
            IN /\ recent_skip_days' = l
               /\ IF IsRepeating(l)
                  THEN Goto("context", Log(c, "restart"))
                  ELSE Finish(SkipCycleNaps, c)
       ELSE /\ recent_skip_days' = recent_skip_days
            /\ Finish(SkipCycleNaps, cyc)
    /\ UNCHANGED <<now, SPOTIFY_TOKEN, TOKEN_EXPIRES_AT, skipping_paused,
                   temp_pause_track_id, last_checked_track_id,
                   ENABLE_RESTART_PATTERN, track, days_since, was_paused,
                   tpc, refresh, prevObs, owed, pausedSkips>>
    /\ tokLog' = NoCall

(***************************************************************************)
(* restart_playlist (438-467), called on line 647.                         *)
(***************************************************************************)
RestartPcs ==
    {"context", "playDummy", "settleDummy", "shuffle", "settleShuffle",
     "playContext"}

\* restart_playlist returns (445, 451, 465) or its except clause ends it
\* (467); then lines 648-653: clear the ledger, sleep 5 s, continue.
RestartReturn(c) ==
    /\ recent_skip_days' = << >>
    /\ Finish(SkipCycleNaps, c)

\* Lines 442-451.
ReadContext ==
    /\ pc = "context"
    /\ ReturnToken("loop")
    /\ \E r \in ContextResponses :
         IF r = "uri"
         THEN /\ Goto("playDummy", [Log(cyc, "context") EXCEPT !.ctx = r])
              /\ UNCHANGED recent_skip_days
         ELSE RestartReturn([Log(cyc, "context") EXCEPT !.ctx = r])
    /\ UNCHANGED <<now, SPOTIFY_TOKEN, TOKEN_EXPIRES_AT, skipping_paused,
                   temp_pause_track_id, last_checked_track_id,
                   ENABLE_RESTART_PATTERN, track, days_since, was_paused,
                   tpc, prevObs, owed, pausedSkips>>

\* Lines 455, 460, 464: spotify_put; the status of the answer is not read.
RestartCommand ==
    /\ pc \in {"playDummy", "shuffle", "playContext"}
    /\ ReturnToken("loop")
    /\ \E r \in CommandResponses :
         IF CommandRaises(r) \/ pc = "playContext"
         THEN RestartReturn(Answered(cyc, pc, r))
         ELSE /\ Goto(IF pc = "playDummy" THEN "settleDummy"
                      ELSE "settleShuffle", Answered(cyc, pc, r))
              /\ UNCHANGED recent_skip_days
    /\ UNCHANGED <<now, SPOTIFY_TOKEN, TOKEN_EXPIRES_AT, skipping_paused,
                   temp_pause_track_id, last_checked_track_id,
                   ENABLE_RESTART_PATTERN, track, days_since, was_paused,
                   tpc, prevObs, owed, pausedSkips>>

\* Line 562 placed inside the while loop: a fresh ledger for each cycle.
LedgerResetEachCycle(l) == << >>

\* Lines 562 and 567: recent_skip_days is created once, before the loop, and
\* a new cycle starts with the ledger the last one left.
LedgerIntoNextCycle(l) == l

\* The time.sleep calls that end a cycle (573, 579, 587, 598, 615, 650, 667,
\* 670); the next cycle starts with fresh locals.
Sleep ==
    /\ pc = "sleep"
    /\ now' = After(SeqSum(naps))
    /\ pc' = "gate"
    /\ naps' = << >>
    /\ cyc' = NewCycle
    /\ track' = NoTrack
    /\ days_since' = 0
    /\ was_paused' = FALSE
    /\ recent_skip_days' = LedgerIntoNextCycle(recent_skip_days)
    /\ UNCHANGED <<SPOTIFY_TOKEN, TOKEN_EXPIRES_AT, skipping_paused,
                   temp_pause_track_id, last_checked_track_id,
                   ENABLE_RESTART_PATTERN, tpc, refresh, prevObs, owed,
                   pausedSkips>>
    /\ tokLog' = NoCall

(***************************************************************************)
(* get_spotify_token finding the cache empty or expired: the refresh       *)
(* exchange of the calling thread.                                         *)
(***************************************************************************)
\* Positions of main_loop that call spotify_get, spotify_post, spotify_put
\* or pause_spotify_playback.
SpotifyPcs ==
    {"observe", "readPause", "skip", "pause", "context", "playDummy",
     "shuffle", "playContext"}

AtSpotifyCall(th) ==
    IF th = "loop" THEN pc \in SpotifyPcs ELSE tpc = "request"

\* Lines 322-323 and 284: the cache is empty or expired, the grant is posted.
BeginRefresh(th) ==
    /\ AtSpotifyCall(th)
    /\ refresh[th].st = "idle"
    /\ NeedsRefresh
    /\ refresh' = [refresh EXCEPT ![th] =
                     [st |-> "post", L |-> 0, t |-> 0,
                      valid |-> SPOTIFY_TOKEN # NoToken
                                /\ now < TOKEN_EXPIRES_AT,
                      posts |-> refresh[th].posts + 1]]
    /\ UNCHANGED <<now, SPOTIFY_TOKEN, TOKEN_EXPIRES_AT, skipping_paused,
                   temp_pause_track_id, last_checked_track_id,
                   ENABLE_RESTART_PATTERN, recent_skip_days, pc, track,
                   days_since, was_paused, naps, tpc, cyc, prevObs, owed,
                   pausedSkips>>
    /\ tokLog' = NoCall

\* Lines 298-305 on an answer carrying a token.
StoreToken(th, r) ==
    /\ SPOTIFY_TOKEN' = <<now + ExpiresIn(r.expires_in)>>
    /\ refresh' = [refresh EXCEPT ![th] =
                     [@ EXCEPT !.st = "store",
                               !.L = ExpiresIn(r.expires_in)]]
    /\ tokLog' = NoCall

\* The answer to the grant reaches main_loop.  A failure raises: inside
\* restart_playlist into its except clause, elsewhere into line 664.
LoopRefreshAnswer ==
    /\ refresh["loop"].st = "post"
    /\ \E r \in RefreshResponses :
         IF r.kind = "ok"
         THEN /\ StoreToken("loop", r)
              /\ UNCHANGED <<pc, naps, cyc, recent_skip_days, prevObs, owed,
                             pausedSkips>>
         ELSE /\ RefreshRaised("loop")
              /\ IF pc \in RestartPcs THEN RestartReturn(cyc)
                 ELSE Raise(cyc) /\ UNCHANGED recent_skip_days
              /\ prevObs' = IF pc = "observe" THEN NoTrack ELSE prevObs
              /\ owed' = IF pc = "observe" THEN FALSE ELSE owed
              /\ pausedSkips' = pausedSkips
    /\ UNCHANGED <<now, TOKEN_EXPIRES_AT, skipping_paused,
                   temp_pause_track_id, last_checked_track_id,
                   ENABLE_RESTART_PATTERN, track, days_since, was_paused,
                   tpc>>

\* The answer to the grant reaches pause_current_song; a failure is caught
\* on line 223.
TrayRefreshAnswer ==
    /\ refresh["tray"].st = "post"
    /\ \E r \in RefreshResponses :
         IF r.kind = "ok"
         THEN StoreToken("tray", r) /\ UNCHANGED tpc
         ELSE /\ RefreshRaised("tray")
              /\ tpc' = "idle"
    /\ UNCHANGED <<now, TOKEN_EXPIRES_AT, skipping_paused,
                   temp_pause_track_id, last_checked_track_id,
                   ENABLE_RESTART_PATTERN, recent_skip_days, pc, track,
                   days_since, was_paused, naps, cyc, prevObs, owed,
                   pausedSkips>>

\* Lines 308-310: TOKEN_EXPIRES_AT is assigned.
RefreshStore(th) ==
    /\ refresh[th].st = "store"
    /\ TOKEN_EXPIRES_AT' = ExpiresAt(now, refresh[th].L)
    /\ refresh' = [refresh EXCEPT ![th] =
                     [@ EXCEPT !.st = "ready", !.t = now]]
    /\ UNCHANGED <<now, SPOTIFY_TOKEN, skipping_paused, temp_pause_track_id,
                   last_checked_track_id, ENABLE_RESTART_PATTERN,
                   recent_skip_days, pc, track, days_since, was_paused, naps,
                   tpc, cyc, prevObs, owed, pausedSkips>>
    /\ tokLog' = NoCall

(***************************************************************************)
(* Tray thread: toggle_skip (205-211), pause_current_song (213-225).      *)
(***************************************************************************)
\* Line 207.
ToggleSkip ==
    /\ tpc = "idle"
    /\ skipping_paused' = ~skipping_paused
    /\ pausedSkips' = 0
    /\ UNCHANGED <<now, SPOTIFY_TOKEN, TOKEN_EXPIRES_AT, temp_pause_track_id,
                   last_checked_track_id, ENABLE_RESTART_PATTERN,
                   recent_skip_days, pc, track, days_since, was_paused, naps,
                   tpc, refresh, cyc, prevObs, owed>>
    /\ tokLog' = NoCall

\* "Don't skip this song" is clicked: line 216 is entered.
TrayClick ==
    /\ tpc = "idle"
    /\ tpc' = "request"
    /\ UNCHANGED <<now, SPOTIFY_TOKEN, TOKEN_EXPIRES_AT, skipping_paused,
                   temp_pause_track_id, last_checked_track_id,
                   ENABLE_RESTART_PATTERN, recent_skip_days, pc, track,
                   days_since, was_paused, naps, refresh, cyc, prevObs, owed,
                   pausedSkips>>
    /\ tokLog' = NoCall

\* Lines 216-224: get_current_track answers; the mark is set to a track.
TrayMark ==
    /\ tpc = "request"
    /\ ReturnToken("tray")
    /\ \E r \in TrackResponses :
         LET g == GetCurrentTrack(r)
         IN temp_pause_track_id' =
              IF ~g.raised /\ g.id # NoTrack THEN g.id
              ELSE temp_pause_track_id
    /\ tpc' = "idle"
    /\ UNCHANGED <<now, SPOTIFY_TOKEN, TOKEN_EXPIRES_AT, skipping_paused,
                   last_checked_track_id, ENABLE_RESTART_PATTERN,
                   recent_skip_days, pc, track, days_since, was_paused, naps,
                   cyc, prevObs, owed, pausedSkips>>

(***************************************************************************)
(* The token manager on its own: two threads call get_spotify_token at     *)
(* arbitrary moments of a running clock, the token endpoint answering with *)
(* any lifetime.                                                           *)
(***************************************************************************)
\* A call that finds the cache valid (lines 322 and 324).
TokenCall(th) ==
    /\ refresh[th].st \in {"idle", "ready"}
    /\ ReturnToken(th)
    /\ UNCHANGED <<now, SPOTIFY_TOKEN, TOKEN_EXPIRES_AT, skipping_paused,
                   temp_pause_track_id, last_checked_track_id,
                   ENABLE_RESTART_PATTERN, recent_skip_days, pc, track,
                   days_since, was_paused, naps, tpc, cyc, prevObs, owed,
                   pausedSkips>>

\* The answer to the grant of thread th; a failure raises to the caller.
TokenAnswer(th) ==
    /\ refresh[th].st = "post"
    /\ \E r \in AllRefreshResponses :
         IF r.kind = "ok" THEN StoreToken(th, r)
         ELSE RefreshRaised(th)
    /\ UNCHANGED <<now, TOKEN_EXPIRES_AT, skipping_paused,
                   temp_pause_track_id, last_checked_track_id,
                   ENABLE_RESTART_PATTERN, recent_skip_days, pc, track,
                   days_since, was_paused, naps, tpc, cyc, prevObs, owed,
                   pausedSkips>>

\* One second passes, in a blocking call or between two calls: not between
\* the assignments of lines 305 and 310.
Tick ==
    /\ now < MaxNow
    /\ \A th \in Threads : refresh[th].st # "store"
    /\ now' = now + 1
    /\ UNCHANGED <<SPOTIFY_TOKEN, TOKEN_EXPIRES_AT, skipping_paused,
                   temp_pause_track_id, last_checked_track_id,
                   ENABLE_RESTART_PATTERN, recent_skip_days, pc, track,
                   days_since, was_paused, naps, tpc, refresh, cyc, prevObs,
                   owed, pausedSkips>>
    /\ tokLog' = NoCall

\* Both threads stand at a call of get_spotify_token.
TokenInit ==
    /\ now = StartTime
    /\ SPOTIFY_TOKEN = NoToken
    /\ TOKEN_EXPIRES_AT = StartTime
    /\ skipping_paused = FALSE
    /\ temp_pause_track_id = NoTrack
    /\ last_checked_track_id = NoTrack
    /\ ENABLE_RESTART_PATTERN = TRUE
    /\ recent_skip_days = << >>
    /\ pc = "observe"
    /\ track = NoTrack
    /\ days_since = 0
    /\ was_paused = FALSE
    /\ naps = << >>
    /\ tpc = "request"
    /\ refresh = [th \in Threads |-> IdleRefresh]
    /\ cyc = NewCycle
    /\ prevObs = NoTrack
    /\ owed = FALSE
    /\ pausedSkips = 0
    /\ tokLog = NoCall

TokenNext ==
    \/ \E th \in Threads :
         \/ TokenCall(th)
         \/ BeginRefresh(th)
         \/ TokenAnswer(th)
         \/ RefreshStore(th)
    \/ Tick

TokenSpec == TokenInit /\ [][TokenNext]_vars

(***************************************************************************)
(* The remote control gate on its own: is_skipping_enabled applied to any  *)
(* answer whose body has up to MaxBodyLines lines.                         *)
(***************************************************************************)
MaxBodyLines == 3

GateBodies ==
    UNION { [1..n -> Lines] : n \in 0..MaxBodyLines }

GateResponses ==
    { [kind |-> "fail", body |-> << >>] }
    \cup { [kind |-> "ok", body |-> b] : b \in GateBodies }

\* main_loop stands at line 576, the answer to line 475 at hand.
GateInit ==
    /\ now = StartTime
    /\ SPOTIFY_TOKEN = NoToken
    /\ TOKEN_EXPIRES_AT = StartTime
    /\ skipping_paused = FALSE
    /\ temp_pause_track_id = NoTrack
    /\ last_checked_track_id = NoTrack
    /\ ENABLE_RESTART_PATTERN = TRUE
    /\ recent_skip_days = << >>
    /\ pc = "remote"
    /\ track = NoTrack
    /\ days_since = 0
    /\ was_paused = FALSE
    /\ naps = << >>
    /\ tpc = "idle"
    /\ refresh = [th \in Threads |-> IdleRefresh]
    /\ \E r \in GateResponses : cyc = [NewCycle EXCEPT !.body = r]
    /\ prevObs = NoTrack
    /\ owed = FALSE
    /\ pausedSkips = 0
    /\ tokLog = NoCall

\* Lines 575-579 on the answer at hand.
GateCheck ==
    /\ pc = "remote"
    /\ cyc.body # NoBody
    /\ LET en == IsSkippingEnabled(cyc.body)
           c == [Log(cyc, "remote") EXCEPT
                   !.remote = IF en THEN "enabled" ELSE "disabled"]
       IN IF en THEN Goto("observe", c)
          ELSE Finish(<<POLL_INTERVAL_SECONDS>>, c)
    /\ UNCHANGED <<now, SPOTIFY_TOKEN, TOKEN_EXPIRES_AT, skipping_paused,
                   temp_pause_track_id, last_checked_track_id,
                   ENABLE_RESTART_PATTERN, recent_skip_days, track,
                   days_since, was_paused, tpc, refresh, prevObs, owed,
                   pausedSkips>>
    /\ tokLog' = NoCall

GateSpec == GateInit /\ [][GateCheck]_vars

LoopNext ==
    \/ Gate
    \/ Remote
    \/ Observe
    \/ CheckMark
    \/ ClearMark
    \/ CheckTempPause
    \/ Lookup
    \/ ReadPause
    \/ Skip
    \/ Pause
    \/ Settle
    \/ Ledger
    \/ ReadContext
    \/ RestartCommand
    \/ Sleep
    \/ BeginRefresh("loop")
    \/ LoopRefreshAnswer
    \/ RefreshStore("loop")

TrayNext ==
    \/ ToggleSkip
    \/ TrayClick
    \/ TrayMark
    \/ BeginRefresh("tray")
    \/ TrayRefreshAnswer
    \/ RefreshStore("tray")

Next == LoopNext \/ TrayNext

Spec == Init /\ [][Next]_vars

\* The Decision Loop is never starved: every call has a timeout and every
\* time.sleep ends.
LiveSpec == Init /\ [][Next]_vars /\ WF_vars(LoopNext)

(***************************************************************************)
(* Properties.                                                             *)
(***************************************************************************)

\* The history lookup of the cycle yielded absent for a reason the lookup
\* itself handles: the request failed, a status other than 200, no scrobble,
\* or a timestamp that is missing or unparsable.
AbsentReply(r) ==
    \/ r.kind \in {"neterr", "status"}
    \/ r.kind = "ok" /\ (r.shape = "empty" \/ r.utsKind # "int")

\* C1: in a cycle whose history lookup yields absent (no scrobble, status
\* other than 200, network error, unusable timestamp) no skip command is
\* issued.
C1_NoSkipWhenAbsent ==
    AbsentReply(cyc.reply) => ~Has(cyc.events, "skip")

C1_Witness ==
    /\ pc = "sleep"
    /\ AbsentReply(cyc.reply)
    /\ cyc.reply.utsKind = "garbage"
    /\ naps = <<POLL_INTERVAL_SECONDS>>

\* C2: a newly observed track that passed all gates and has a known
\* last_played_at is skipped if and only if now - last_played_at < window.
C2_SkipIffRecent ==
    (pc = "sleep" /\ cyc.reply.kind = "ok" /\ cyc.reply.utsKind = "int")
        => (Has(cyc.events, "skip") <=> cyc.age < Window)

\* C3: an observation that returns the id returned by the observation before
\* it ends the cycle at once: no history lookup, no skip evaluation, no
\* playback command, one full-interval sleep.
C3_Deduplication ==
    [][ ( /\ pc = "observe"
          /\ cyc'.events = Append(cyc.events, "observe")
          /\ cyc'.obs \in TrackIds
          /\ cyc'.obs = prevObs )
        => ( /\ pc' = "sleep"
             /\ naps' = <<POLL_INTERVAL_SECONDS>>
             /\ ~cyc'.exc ) ]_vars

C3_Witness ==
    /\ pc = "sleep"
    /\ cyc.obs \in TrackIds
    /\ cyc.obs = last_checked_track_id
    /\ cyc.events = <<"remote", "observe">>
    /\ ~cyc.exc

\* C4: a cycle that finds the manual pause flag set, or the remote gate
\* disabled, observes no track, looks up no history, issues no playback
\* command (and with the flag set not even the remote request) and sleeps
\* exactly one full poll interval.
C4_GatedCycle ==
    (pc = "sleep" /\ (cyc.flag \/ cyc.remote = "disabled"))
        => /\ naps = <<POLL_INTERVAL_SECONDS>>
           /\ cyc.events = IF cyc.flag THEN << >> ELSE <<"remote">>
           /\ cyc.obs = "unobserved"
           /\ ~cyc.exc

C4_Witness ==
    /\ pc = "sleep"
    /\ cyc.flag
    /\ cyc.events = << >>

\* C5: a get_spotify_token call made while a token exists and now <
\* expires_at issues no refresh exchange and returns; a call made with no
\* token or with now >= expires_at issues exactly one.
C5_TokenCaching ==
    tokLog.made =>
        /\ tokLog.valid => (tokLog.exchanges = 0 /\ tokLog.returned)
        /\ ~tokLog.valid => tokLog.exchanges = 1

C5_Witness ==
    /\ tokLog.made
    /\ tokLog.valid
    /\ tokLog.exchanges = 0
    /\ now > StartTime

\* A call that returned the cached token without a refresh.
CachedReturn == tokLog.made /\ tokLog.returned /\ tokLog.exchanges = 0

\* C6: expires_at is a conservative estimate of the real expiry t + L of the
\* stored token, for every lifetime L: whenever get_spotify_token returns
\* the cached token without refreshing, the clock is strictly before the
\* instant at which the server stops honouring that token.
C6_CachedTokenNotExpired ==
    CachedReturn => ~tokLog.stale

\* C7: in a skip cycle that pushes its days_since, restart_playlist is
\* called if and only if the ledger then holds exactly N entries whose
\* spread is within the tolerance, and the ledger is empty at the end of
\* such a cycle; no other cycle calls it.
C7_PatternRestart ==
    pc = "sleep" =>
        LET fired == Has(cyc.events, "restart")
            full == Len(cyc.pushed) = RESTART_PATTERN_SONG_COUNT
        IN /\ fired => cyc.didPush /\ recent_skip_days = << >>
           /\ cyc.didPush =>
                (fired <=>
                   (full /\ SeqMax(cyc.pushed) - SeqMin(cyc.pushed)
                              <= RESTART_PATTERN_DAY_DIFF))

C7_Witness ==
    /\ pc = "sleep"
    /\ Has(cyc.events, "restart")
    /\ SeqMax(cyc.pushed) # SeqMin(cyc.pushed)
    /\ recent_skip_days = << >>

\* C8: whatever fails, the loop comes back to the start of a cycle again
\* and again.
C8_LoopResilient == []<>(pc = "gate")

C8_Witness ==
    /\ pc = "sleep"
    /\ cyc.exc

\* C9: a cycle aborted by an exception caught on line 664 is followed by
\* exactly one full poll interval of sleep.
C9_OneSleepAfterException ==
    (pc = "sleep" /\ cyc.exc) => naps = <<POLL_INTERVAL_SECONDS>>

\* C10: the pause state is read before the skip command; a pause command is
\* issued only after a skip command of the same cycle and only if that read
\* reported paused.
C10_PauseRestoration ==
    LET e == cyc.events
    IN /\ Has(e, "skip") =>
            (Has(e, "player") /\ IndexOf(e, "player") < IndexOf(e, "skip"))
       /\ Has(e, "pause") =>
            /\ Has(e, "skip")
            /\ IndexOf(e, "skip") < IndexOf(e, "pause")
            /\ cyc.player = "paused"

C10_Witness ==
    /\ pc = "sleep"
    /\ Has(cyc.events, "pause")
    /\ cyc.player = "paused"

\* The remote request of the cycle succeeded and its body was b.
GateAnswered(b) ==
    cyc.remote # "unasked" /\ cyc.body = [kind |-> "ok", body |-> b]

\* C11 as stated: on a successful request skipping is permitted only if the
\* first non-empty line, lowercased, is "on"; any other body, the empty body
\* included, does not permit it; a failed request permits it.
C11_GateOnlyOn ==
    /\ \A b \in GateBodies :
         GateAnswered(b) =>
           (cyc.remote = "enabled" <=>
              \E i \in 1..Len(b) :
                 /\ \A j \in 1..(i - 1) : Strip(b[j]) = ""
                 /\ Strip(b[i]) # ""
                 /\ Lower(Strip(b[i])) = "on")
    /\ (cyc.remote # "unasked" /\ cyc.body.kind = "fail")
          => cyc.remote = "enabled"

\* C11 amended: on a successful request whose body has a non-blank line,
\* skipping is permitted if and only if the first such line, stripped and
\* lowercased, is "on"; a body with no non-blank line (the empty body)
\* permits it, and so does a failed request.
C11_GateFailOpen ==
    /\ \A b \in GateBodies :
         GateAnswered(b) =>
           (cyc.remote = "enabled" <=>
              \/ \A j \in 1..Len(b) : Strip(b[j]) = ""
              \/ \E i \in 1..Len(b) :
                    /\ \A j \in 1..(i - 1) : Strip(b[j]) = ""
                    /\ Strip(b[i]) # ""
                    /\ Lower(Strip(b[i])) = "on")
    /\ (cyc.remote # "unasked" /\ cyc.body.kind = "fail")
          => cyc.remote = "enabled"

C11_Witness ==
    /\ pc = "observe"
    /\ cyc.remote = "enabled"
    /\ cyc.body = [kind |-> "ok", body |-> <<"", "  ">>]

\* C12: a cycle in which main_loop observes a playing track whose id differs
\* from the TemporaryPauseMark ends with the mark cleared.  Stated on the
\* observations that end their cycle in the same step: the mark after the
\* step is the mark at the end of the cycle.
C12_MarkClearedOnOtherTrack ==
    [][ ( /\ pc = "observe"
          /\ cyc'.events = Append(cyc.events, "observe")
          /\ cyc'.obs \in TrackIds
          /\ temp_pause_track_id # NoTrack
          /\ temp_pause_track_id # cyc'.obs
          /\ pc' = "sleep"
          /\ ~cyc'.exc )
        => temp_pause_track_id' = NoTrack ]_vars

\* C13: when the evaluation of a recently played track decided to skip it
\* and the skip did not happen (an exception aborted the cycle, or the skip
\* command was rejected), and the next observation returns the same track,
\* that cycle evaluates the track again.
C13_SkipIntentRetried ==
    [][ ( /\ pc = "observe"
          /\ owed
          /\ cyc'.events = Append(cyc.events, "observe")
          /\ cyc'.obs \in TrackIds
          /\ cyc'.obs = prevObs )
        => pc' = "checkMark" ]_vars

\* C14: whatever the interleaving with the tray thread, no skip command is
\* issued for a track while the TemporaryPauseMark equals its id; and a cycle
\* that finds the mark equal to the newly observed track on line 612 goes to
\* the full-interval sleep with no history lookup and no skip.
C14_NoSkipWhileMarked ==
    [][ /\ ( /\ pc = "skip"
             /\ cyc'.events = Append(cyc.events, "skip") )
           => temp_pause_track_id # track
        /\ ( /\ pc = "checkTempPause"
             /\ pc' # pc
             /\ temp_pause_track_id = track )
           => ( /\ pc' = "sleep"
                /\ naps' = <<POLL_INTERVAL_SECONDS>>
                /\ cyc'.events = <<"remote", "observe">> ) ]_vars

\* C15: a cycle that issues a skip and completes without an exception is
\* followed by the short delay only; a cycle that completes without issuing
\* a skip is followed by exactly one full poll interval.
C15_SleepSelection ==
    (pc = "sleep" /\ ~cyc.exc) =>
        naps = IF Has(cyc.events, "skip")
               THEN <<SHORT_DELAY_SECONDS>>
               ELSE <<POLL_INTERVAL_SECONDS>>

C15_Witness ==
    /\ pc = "sleep"
    /\ ~cyc.exc
    /\ Has(cyc.events, "skip")
    /\ Has(cyc.events, "pause")
    /\ naps = <<SHORT_DELAY_SECONDS>>

\* The calls of restart_playlist among the calls of the cycle, in order.
RECURSIVE RestartCalls(_)
RestartCalls(e) ==
    IF e = << >> THEN << >>
    ELSE IF e[1] \in RestartPcs THEN <<e[1]>> \o RestartCalls(Tail(e))
    ELSE RestartCalls(Tail(e))

\* C16: when the context URI cannot be read or is absent no play or shuffle
\* command is issued; otherwise the commands go out in the order play (filler
\* context), shuffle, play (original context); and a sub-step answered with a
\* non-success status is the last one issued in that cycle.
C16_RestartSequence ==
    LET calls == RestartCalls(cyc.events)
        order == <<"context", "playDummy", "shuffle", "playContext">>
    IN /\ Len(calls) <= 4
       /\ calls = SubSeq(order, 1, Len(calls))
       /\ (cyc.ctx # "uri") => Len(calls) <= 1
       /\ \A i \in 1..Len(calls) :
            Has(cyc.rejected, calls[i]) => i = Len(calls)

\* The last n entries of sequence l (all of them when it has fewer).
LastEntries(l, n) ==
    IF Len(l) <= n THEN l ELSE SubSeq(l, Len(l) - n + 1, Len(l))

\* C17: the ledger never holds more than N entries; a skip cycle that records
\* its days_since leaves the N most recent recorded values in skip order
\* (the oldest is evicted first); and the ledger changes in no other way than
\* by that or by being cleared after the restart sequence.
C17_LedgerBound ==
    /\ [](Len(recent_skip_days) <= RESTART_PATTERN_SONG_COUNT)
    /\ [][ IF pc = "ledger" /\ pc' # pc /\ ENABLE_RESTART_PATTERN
           THEN recent_skip_days' =
                  LastEntries(recent_skip_days \o <<days_since>>,
                              RESTART_PATTERN_SONG_COUNT)
           ELSE \/ recent_skip_days' = recent_skip_days
                \/ /\ recent_skip_days' = << >>
                   /\ Has(cyc'.events, "restart") ]_vars

C17_Witness ==
    /\ pc = "sleep"
    /\ cyc.didPush
    /\ recent_skip_days = cyc.pushed
    /\ Len(recent_skip_days) = RESTART_PATTERN_SONG_COUNT
    /\ recent_skip_days[1] > recent_skip_days[RESTART_PATTERN_SONG_COUNT]
    /\ Len(cyc.rejected) = 0

\* A step in which the get_spotify_token call of thread th ends by raising.
RefreshFails(th) ==
    /\ refresh[th].st = "post"
    /\ refresh'[th].st = "idle"
    /\ tokLog'.made
    /\ ~tokLog'.returned

\* C18: a refresh exchange that fails makes get_spotify_token raise after
\* that one exchange, leaves SPOTIFY_TOKEN and TOKEN_EXPIRES_AT as they were,
\* and leaves the thread with no call in progress and a cache that, if it
\* was empty or expired, still is: the next call posts the grant again.
C18_RefreshFailure ==
    [][ \A th \in Threads :
          RefreshFails(th) =>
            /\ tokLog'.exchanges = 1
            /\ SPOTIFY_TOKEN' = SPOTIFY_TOKEN
            /\ TOKEN_EXPIRES_AT' = TOKEN_EXPIRES_AT
            /\ refresh'[th] = IdleRefresh
            /\ NeedsRefresh => NeedsRefresh' ]_vars

C18_Witness ==
    /\ tokLog.made
    /\ ~tokLog.returned
    /\ tokLog.exchanges = 1
    /\ SPOTIFY_TOKEN # NoToken
    /\ now >= TOKEN_EXPIRES_AT
    /\ \A th \in Threads : refresh[th].st = "idle"

\* C19: a history reply carrying the scrobble as a single record and one
\* carrying it in a list lead, for the same timestamp, to the same outcome
\* of the lookup: the skip is decided exactly when the timestamp lies inside
\* the window, whatever the shape.
C19_ShapesAgree ==
    [][ ( /\ pc = "lookup"
          /\ cyc'.events = Append(cyc.events, "lookup")
          /\ cyc'.reply.kind = "ok"
          /\ cyc'.reply.shape \in {"list", "dict"}
          /\ cyc'.reply.utsKind = "int" )
        => ( /\ ~cyc'.exc
             /\ pc' = IF cyc'.age < Window THEN "readPause" ELSE "sleep" )
      ]_vars

\* The number of entries of sequence e equal to x.
RECURSIVE Count(_, _)
Count(e, x) ==
    IF e = << >> THEN 0
    ELSE (IF e[1] = x THEN 1 ELSE 0) + Count(Tail(e), x)

\* The skip or pause command c is answered with a non-success status in
\* this step.
Rejects(c) == cyc'.rejected = Append(cyc.rejected, c)

\* C20: a skip or pause command answered with a non-success status raises
\* nothing and the cycle goes on as after a success: the command is issued
\* once, the ledger is pushed and the pattern checked, and the short sleep
\* ends the cycle.
C20_RejectedCommandSwallowed ==
    /\ [][ /\ Rejects("skip") =>
                /\ ~cyc'.exc
                /\ pc' = IF was_paused THEN "settle" ELSE "ledger"
           /\ Rejects("pause") => (~cyc'.exc /\ pc' = "ledger") ]_vars
    /\ []( ( /\ pc = "sleep"
             /\ ~cyc.exc
             /\ (Has(cyc.rejected, "skip") \/ Has(cyc.rejected, "pause")) )
           => /\ Count(cyc.events, "skip") = 1
              /\ Count(cyc.events, "pause") <= 1
              /\ ENABLE_RESTART_PATTERN =>
                    /\ cyc.didPush
                    /\ Has(cyc.events, "restart") <=> IsRepeating(cyc.pushed)
              /\ naps = <<SHORT_DELAY_SECONDS>> )

C20_Witness ==
    /\ pc = "sleep"
    /\ ~cyc.exc
    /\ cyc.rejected = <<"skip", "pause">>
    /\ cyc.didPush
    /\ naps = <<SHORT_DELAY_SECONDS>>

\* C21: with the pattern restart disabled in the configuration the ledger
\* stays empty and restart_playlist is never called, whatever is skipped;
\* and, enabled or not, a cycle that ends without an exception on a track
\* whose last scrobble lies inside the window has issued the skip.
C21_PatternDisabled ==
    /\ ~ENABLE_RESTART_PATTERN =>
          /\ recent_skip_days = << >>
          /\ ~cyc.didPush
          /\ ~Has(cyc.events, "restart")
          /\ pc \notin RestartPcs
    /\ ( /\ pc = "sleep"
         /\ ~cyc.exc
         /\ cyc.reply.shape = "list"
         /\ cyc.reply.utsKind = "int" )
       => (Has(cyc.events, "skip") <=> cyc.age < Window)

C21_Witness ==
    /\ ~ENABLE_RESTART_PATTERN
    /\ pc = "sleep"
    /\ ~cyc.exc
    /\ Has(cyc.events, "skip")
    /\ days_since = 3
    /\ prevObs = "B"
    /\ last_checked_track_id = "B"
    /\ owed = FALSE

\* C22: a cycle that issues no skip leaves the ledger as it found it: the
\* ledger changes only inside a cycle, after that cycle's skip command, and
\* is carried unchanged from one cycle into the next.
C22_LedgerFrame ==
    [][ recent_skip_days' # recent_skip_days
          => (pc # "sleep" /\ Has(cyc.events, "skip")) ]_vars

C22_Witness ==
    /\ pc = "sleep"
    /\ ~cyc.exc
    /\ Has(cyc.events, "lookup")
    /\ ~Has(cyc.events, "skip")
    /\ cyc.age > Window
    /\ Len(recent_skip_days) = 1

\* C23: last_checked_track_id changes only when a track other than it is
\* observed, so cycles that end at the manual pause gate, at the remote gate
\* or on nothing playing leave it alone; and an observation that returns it
\* again, whatever cycles lie in between, ends the cycle as the same song.
C23_DedupSurvivesGates ==
    [][ /\ last_checked_track_id' # last_checked_track_id
           => ( /\ pc = "observe"
                /\ cyc'.obs \in TrackIds
                /\ last_checked_track_id' = cyc'.obs )
        /\ ( /\ pc = "observe"
             /\ cyc'.events = Append(cyc.events, "observe")
             /\ cyc'.obs \in TrackIds
             /\ cyc'.obs = last_checked_track_id )
           => ( /\ pc' = "sleep"
                /\ naps' = <<POLL_INTERVAL_SECONDS>>
                /\ ~cyc'.exc ) ]_vars

C23_Witness ==
    /\ pc = "sleep"
    /\ cyc.events = <<"remote", "observe">>
    /\ cyc.obs = NoTrack
    /\ ~cyc.exc
    /\ last_checked_track_id = "A"

\* C24: once the tray thread has set skipping_paused and for as long as it
\* stays set, main_loop issues at most one more skip command, that of a
\* cycle which had passed line 570 before; every cycle that starts with the
\* flag set reads it on line 570 and goes to sleep, and a cycle that read it
\* set issues no skip.
C24_PauseBoundsSkips ==
    /\ [](pausedSkips <= 1)
    /\ [](cyc.flag => ~Has(cyc.events, "skip"))
    /\ [][ (pc = "gate" /\ pc' # pc /\ skipping_paused)
             => (cyc'.flag /\ pc' = "sleep") ]_vars

C24_Witness ==
    /\ skipping_paused
    /\ pausedSkips = 1
    /\ pc = "sleep"
    /\ cyc.flag

\* C25: the assignment of line 607 never erases a mark that, at the moment
\* of the assignment, equals the id of the track main_loop is processing in
\* that cycle, whatever the tray thread did since the test of line 605.
C25_NoLostMark ==
    [][ (pc = "clearMark" /\ temp_pause_track_id' = NoTrack /\ pc' # pc)
          => temp_pause_track_id # track ]_vars

====
